---- MODULE Spec2Model ----
(***************************************************************************)
(* Model of mznlaunch's bounded-time process supervisor                    *)
(* (src/src/timeout.rs): the supervisor thread running timeout(), the      *)
(* watcher thread running loop_until_process_is_finished(), the mutex      *)
(* proc_info guarding (child, done), the condition variable cond_var, and  *)
(* the operating-system processes (the child and the processes it spawns). *)
(*                                                                         *)
(* Time is discrete; one tick is 500 ms.  Computation steps take no time:  *)
(* the clock advances only when no thread has a step it can take by        *)
(* itself (see Urgent).                                                    *)
(***************************************************************************)
EXTENDS Integers, Sequences, FiniteSets, TLC

\* ---- bounds of the model ------------------------------------------------
NumKids == 2          \* processes the child may spawn
MaxD == 3             \* largest timeout handed to timeout(), in ticks
MaxSpurious == 1      \* spurious wake-ups of the condition wait
MaxLines == 3         \* lines of a stream handed to the logger alone
MaxWrites == 2        \* lines the solver writes while main() runs

\* ---- program constants --------------------------------------------------
PollInterval == 1     \* thread::sleep(Duration::from_millis(500)), in ticks

\* f32::MAX, the initial objective; the largest number of the model
\* stands for it
F32_MAX == 2147483647

\* the clock stops once every timeout and one more poll have passed
MaxTime == MaxD + PollInterval

Root == 0
Kids == 1..NumKids
Procs == {Root} \cup Kids

VARIABLES
    now,          \* wall clock, in ticks
    D,            \* the `timeout` argument of timeout()
    pstate,       \* pstate[p] \in {"unborn", "running", "exited"}
    exitTime,     \* when the child exited by itself, -1 while it has not
    rootIncluded, \* does killall::list_descendants list the root pid itself
    lock,         \* owner of the mutex proc_info: "free", "sup", "watcher"
    finished,     \* the bool of proc_info (`done`)
    cached,       \* the Child handle has reaped and cached the exit status
    notified,     \* a notify_all reached the supervisor blocked in the wait
    sup_pc,       \* position of the supervisor in timeout()
    w_pc,         \* position of the watcher in loop_until_process_is_finished
    w_wake,       \* end of the watcher's current sleep
    waitStart,    \* `start` of wait_timeout_while
    spurious,     \* spurious wake-ups so far
    childrens,    \* the Vec returned by list_descendants
    idx,          \* position of the for loop of maybe_cleanup in childrens
    attempted,    \* attempted[p]: kill(p) has been called
    signaled,     \* signaled[p]: kill(p) returned Ok
    result,       \* what timeout() returned: "none" while it runs
    hist,         \* observations of the run, written once each (see HistInit)
    kind,         \* which logger runs: "tsptw" or "psp"
    iname,        \* the label of the run
    stream,       \* the lines the solver has written to its stdout so far
    p_pos,        \* how many of them the logger thread has taken
    p_pc,         \* the logger thread: "off", "run", "eof", "dead", "killed"
    rec,          \* its three locals (objective, solution, elapsed)
    prevRec,      \* rec as it was before the line taken last
    rows,         \* the rows printed so far
    mainExited    \* main() has returned: the process is gone

vars == <<now, D, pstate, exitTime, rootIncluded, lock, finished, cached,
          notified, sup_pc, w_pc, w_wake, waitStart, spurious, childrens,
          idx, attempted, signaled, result, hist,
          kind, iname, stream, p_pos, p_pc, rec, prevRec, rows, mainExited>>

envVars == <<pstate, exitTime>>
supVars == <<sup_pc, waitStart, spurious, childrens, idx, attempted, signaled, result>>
wVars == <<w_pc, w_wake>>
coreVars == <<now, D, rootIncluded, lock, finished, cached, notified, hist>>
pVars == <<kind, iname, stream, p_pos, p_pc, rec, prevRec, rows, mainExited>>

\* hist records facts about steps already taken; no guard reads it.
HistInit ==
    [ waitDone      |-> "none",   \* how the wait ended: "finished" / "timeout"
      probe         |-> "none",   \* final probe: "some", "none_", "err"
      exitedAtProbe |-> FALSE,    \* the child had exited when the final probe ran
      enum          |-> "none",   \* enumeration: "ok" / "err"
      runningAtEnum |-> {},       \* the processes running at enumeration
      killErr       |-> "none",   \* a failed kill hit a "live" / "dead" entry
      returnedAt    |-> -1,       \* clock when timeout() returned
      wProbeErr     |-> FALSE,    \* a probe of the watcher failed
      wNotified     |-> -1 ]      \* clock when the watcher set done and notified

Running == { p \in Procs : pstate[p] = "running" }

\* h, with the moment timeout() returns written down
Ret(h) == [h EXCEPT !.returnedAt = now]

RECURSIVE Perms(_)
\* every order in which a Vec can hold the members of S
Perms(S) ==
    IF S = {} THEN { <<>> }
    ELSE UNION { { <<x>> \o t : t \in Perms(S \ {x}) } : x \in S }

Range(s) == { s[i] : i \in 1..Len(s) }


\* ---- the output loggers: text -------------------------------------------
\* A line is a sequence of strings: a literal of the patterns (a marker such
\* as "% makespan: ", or the ten hyphens) is one element, every other
\* character is an element of its own.  Numbers are counted in units of
\* 1/10000.

Digits == {"0", "1", "2", "3", "4", "5", "6", "7", "8", "9"}

DigitVal(c) ==
    CASE c = "0" -> 0 [] c = "1" -> 1 [] c = "2" -> 2 [] c = "3" -> 3
      [] c = "4" -> 4 [] c = "5" -> 5 [] c = "6" -> 6 [] c = "7" -> 7
      [] c = "8" -> 8 [] c = "9" -> 9

RECURSIVE ToNat(_)
\* the number a string of digits denotes
ToNat(ds) ==
    IF ds = <<>> THEN 0
    ELSE 10 * ToNat(SubSeq(ds, 1, Len(ds) - 1)) + DigitVal(ds[Len(ds)])

RECURSIVE Pow10(_)
Pow10(n) == IF n = 0 THEN 1 ELSE 10 * Pow10(n - 1)

AllDigits(s) == \A i \in 1..Len(s) : s[i] \in Digits

\* is t a prefix of s
StartsWith(s, t) == Len(t) <= Len(s) /\ SubSeq(s, 1, Len(t)) = t

\* the patterns of the two loggers
Sentinel == <<"----------">>
ObjHead(k) == IF k = "tsptw" THEN "% makespan: " ELSE "% total cost : "
SolHead(k) == IF k = "tsptw" THEN "% permutation: [" ELSE "% plan       : ["
TimeHead == "% time elapsed: "
TimeTail == <<" ", "s">>

\* an item of stdout.lines() that is an Err (bytes that are no UTF-8)
Unreadable == <<"<not utf-8>">>

\* The group of the regex `(\d+.\d+)` matched at the start of body and
\* followed by tail: digits, any one character, digits.  The regex engine
\* prefers the longest first run, then the longest second run.  <<>> when
\* there is no match.
NumCapture(body, tail) ==
    LET fits(a, b) ==
            /\ a + 1 + b <= Len(body)
            /\ AllDigits(SubSeq(body, 1, a))
            /\ AllDigits(SubSeq(body, a + 2, a + 1 + b))
            /\ StartsWith(SubSeq(body, a + 2 + b, Len(body)), tail)
        cands == { ab \in (1..Len(body)) \X (1..Len(body)) : fits(ab[1], ab[2]) }
        best == CHOOSE ab \in cands :
                    \A cd \in cands :
                        \/ cd[1] < ab[1]
                        \/ cd[1] = ab[1] /\ cd[2] <= ab[2]
    IN IF cands = {} THEN <<>> ELSE SubSeq(body, 1, best[1] + 1 + best[2])

\* str::parse::<f32>() of a captured group: -1 for Err.  The group is
\* digits, one character, digits: a number when that character is a digit,
\* the decimal point or the exponent mark.
ParseF32(cap) ==
    LET a == CHOOSE n \in 0..Len(cap) :
                 /\ AllDigits(SubSeq(cap, 1, n))
                 /\ (n = Len(cap) \/ cap[n + 1] \notin Digits)
        ip == SubSeq(cap, 1, a)
        fp == SubSeq(cap, a + 2, Len(cap))
        frac4 == SubSeq(fp \o <<"0", "0", "0", "0">>, 1, 4)
    IN IF a = Len(cap) THEN 10000 * ToNat(cap)
       ELSE IF ~AllDigits(fp) THEN -1
       ELSE IF cap[a + 1] = "." THEN 10000 * ToNat(ip) + ToNat(frac4)
       ELSE IF cap[a + 1] \in {"e", "E"} THEN 10000 * ToNat(ip) * Pow10(ToNat(fp))
       ELSE -1

\* The group of the regex `\[(.*)\]`, the "[" being part of the marker: all
\* up to the last "]".  no match without a "]".
SolMatches(body) == \E i \in 1..Len(body) : body[i] = "]"

SolCapture(body) ==
    LET last == CHOOSE i \in 1..Len(body) :
                    body[i] = "]" /\ \A j \in (i + 1)..Len(body) : body[j] # "]"
    IN SubSeq(body, 1, last - 1)

\* cap[1].replace(",", "")
StripCommas(s) == SelectSeq(s, LAMBDA c : c # ",")

\* the locals of a logger before the loop
RecInit ==
    [ objective |-> F32_MAX,
      solution  |-> <<"-- no solution --">>,
      elapsed   |-> 0 ]

\* `{:>10.4}` of the objective: four decimals
Fmt4(v) == v

\* `{:>10.2}` of the elapsed time: two decimals (in units of 1/100)
Fmt2(v) == (v + 50) \div 100

\* the println! of a row
Row(label, r) ==
    [ label     |-> label,
      objective |-> Fmt4(r.objective),
      elapsed   |-> Fmt2(r.elapsed),
      solution  |-> r.solution ]

HasHead(line, h) == Len(line) >= 1 /\ line[1] = h

\* does the line match the pattern of the objective / of the elapsed time
ObjMatch(k, line) ==
    HasHead(line, ObjHead(k)) /\ NumCapture(Tail(line), <<>>) # <<>>
TimeMatch(line) ==
    HasHead(line, TimeHead) /\ NumCapture(Tail(line), TimeTail) # <<>>
SolMatch(k, line) ==
    HasHead(line, SolHead(k)) /\ SolMatches(Tail(line))

\* does the body of the loop panic on this item: line.unwrap(), or one of
\* the two parse::<f32>().unwrap()
Fatal(k, line) ==
    \/ line = Unreadable
    \/ ObjMatch(k, line) /\ ParseF32(NumCapture(Tail(line), <<>>)) = -1
    \/ TimeMatch(line) /\ ParseF32(NumCapture(Tail(line), TimeTail)) = -1

\* variant: an objective is kept only when it improves on the current one
ApplyObjMin(k, r, line) ==
    IF ObjMatch(k, line)
    THEN LET v == ParseF32(NumCapture(Tail(line), <<>>))
         IN [r EXCEPT !.objective = IF v < r.objective THEN v ELSE r.objective]
    ELSE r

\* the three `if let Some(cap) = ...` of the body of the loop, in order
ApplyObj(k, r, line) ==
    IF ObjMatch(k, line)
    THEN [r EXCEPT !.objective = ParseF32(NumCapture(Tail(line), <<>>))]
    ELSE r

ApplySol(k, r, line) ==
    IF SolMatch(k, line)
    THEN [r EXCEPT !.solution = StripCommas(SolCapture(Tail(line)))]
    ELSE r

\* variant: the elapsed times add up
ApplyTimeAccumulate(r, line) ==
    IF TimeMatch(line)
    THEN [r EXCEPT !.elapsed =
              r.elapsed + ParseF32(NumCapture(Tail(line), TimeTail))]
    ELSE r

ApplyTime(r, line) ==
    IF TimeMatch(line)
    THEN [r EXCEPT !.elapsed = ParseF32(NumCapture(Tail(line), TimeTail))]
    ELSE r

ApplyLine(k, r, line) == ApplyTime(ApplySol(k, ApplyObj(k, r, line), line), line)

\* variant: a line that starts with the ten hyphens
EmitsPrefix(line) == HasHead(line, "----------")

\* if line == "----------"
Emits(line) == line = Sentinel

\* the logger thread does not exist
ParserOff ==
    /\ kind = "tsptw"
    /\ iname = "bench1/inst01"
    /\ stream = <<>>
    /\ p_pos = 0
    /\ p_pc = "off"
    /\ rec = RecInit
    /\ prevRec = RecInit
    /\ rows = <<>>
    /\ mainExited = FALSE

\* timeout() has been called: Shared::new(child), the watcher spawned
SupInit ==
    /\ now = 0
    /\ D \in 0..MaxD
    /\ pstate = [p \in Procs |-> IF p = Root THEN "running" ELSE "unborn"]
    /\ exitTime = -1
    /\ rootIncluded \in BOOLEAN
    /\ lock = "free"
    /\ finished = FALSE
    /\ cached = FALSE
    /\ notified = FALSE
    /\ sup_pc = "lock"
    /\ w_pc = "lock"
    /\ w_wake = 0
    /\ waitStart = 0
    /\ spurious = 0
    /\ childrens = <<>>
    /\ idx = 0
    /\ attempted = [p \in Procs |-> FALSE]
    /\ signaled = [p \in Procs |-> FALSE]
    /\ result = "none"
    /\ hist = HistInit

\* timeout() alone, on a child whose output nobody reads
Init == SupInit /\ ParserOff

\* ---- the operating system: processes ------------------------------------
\* The processes are followed until timeout() returns: no step of the
\* program reads them after that, and pstate then shows them as they were at
\* the moment of the return.
Observed == sup_pc # "done"

\* the child exits by itself (or because a signal took effect)
RootExit ==
    /\ Observed
    /\ pstate[Root] = "running"
    /\ pstate' = [pstate EXCEPT ![Root] = "exited"]
    /\ exitTime' = now
    /\ UNCHANGED <<now, D, rootIncluded, lock, finished, cached, notified,
                   hist>>
    /\ UNCHANGED supVars
    /\ UNCHANGED wVars
    /\ UNCHANGED pVars

\* the running child spawns a sub-process (pids are handed out in order)
KidSpawn(k) ==
    /\ Observed
    /\ pstate[Root] = "running"
    /\ pstate[k] = "unborn"
    /\ \A j \in Kids : j < k => pstate[j] # "unborn"
    /\ pstate' = [pstate EXCEPT ![k] = "running"]
    /\ UNCHANGED <<now, D, exitTime, rootIncluded, lock, finished, cached,
                   notified, hist>>
    /\ UNCHANGED supVars
    /\ UNCHANGED wVars
    /\ UNCHANGED pVars

\* a sub-process exits
KidExit(k) ==
    /\ Observed
    /\ pstate[k] = "running"
    /\ pstate' = [pstate EXCEPT ![k] = "exited"]
    /\ UNCHANGED <<now, D, exitTime, rootIncluded, lock, finished, cached,
                   notified, hist>>
    /\ UNCHANGED supVars
    /\ UNCHANGED wVars
    /\ UNCHANGED pVars

\* Child::try_wait(): Ok(Some(status)) once the status is cached; otherwise
\* the wait system call answers Ok(Some) for an exited child, Ok(None) for a
\* running one, or fails.
TryWaitOutcomes ==
    IF cached THEN {"some"}
    ELSE IF pstate[Root] = "exited" THEN {"some", "err"}
    ELSE {"none_", "err"}

\* killall::list_descendants(pid): the processes of the tree that exist now
Enumerated ==
    { k \in Kids : pstate[k] = "running" }
        \cup (IF rootIncluded THEN {Root} ELSE {})

\* ---- the supervisor: timeout() ------------------------------------------

\* a thread with one of these steps pending takes it before time passes
SupUrgent ==
    \/ sup_pc \in {"lock", "check", "post_wait", "probe", "enum", "kill"}
    \/ sup_pc = "waiting" /\ (notified \/ now - waitStart >= D)

WUrgent ==
    \/ w_pc \in {"lock", "check", "probe"}
    \/ w_pc = "sleep" /\ now >= w_wake

Urgent == SupUrgent \/ WUrgent

\* variant: the wait blocks before it has looked at the flag
SupLockThenWait ==
    /\ sup_pc = "lock"
    /\ lock = "free"
    /\ lock' = "free"
    /\ sup_pc' = "waiting"
    /\ waitStart' = now
    /\ UNCHANGED <<now, D, rootIncluded, finished, cached, notified, hist,
                   spurious, childrens, idx, attempted, signaled, result>>
    /\ UNCHANGED envVars
    /\ UNCHANGED wVars
    /\ UNCHANGED pVars

\* shared.proc_info.lock()? and entry into wait_timeout_while
SupLock ==
    /\ sup_pc = "lock"
    /\ lock = "free"
    /\ lock' = "sup"
    /\ sup_pc' = "check"
    /\ waitStart' = now
    /\ UNCHANGED <<now, D, rootIncluded, finished, cached, notified, hist,
                   spurious, childrens, idx, attempted, signaled, result>>
    /\ UNCHANGED envVars
    /\ UNCHANGED wVars
    /\ UNCHANGED pVars

\* variant: a wait without the timeout
WaitLeavesNoTimeout == finished

\* variant: a wait that takes any wake-up as the end of the wait
WaitLeavesAnyWake == TRUE

\* the loop of wait_timeout_while, with the lock held: leave when the
\* predicate `!done` is false or when the timeout has elapsed, otherwise
\* release the lock and block
WaitLeaves == finished \/ now - waitStart >= D

SupCheck ==
    /\ sup_pc = "check"
    /\ IF WaitLeaves
       THEN /\ sup_pc' = "post_wait"
            /\ hist' = [hist EXCEPT !.waitDone =
                           IF finished THEN "finished" ELSE "timeout"]
            /\ UNCHANGED lock
       ELSE /\ sup_pc' = "waiting"
            /\ lock' = "free"
            /\ UNCHANGED hist
    /\ notified' = FALSE
    /\ UNCHANGED <<now, D, rootIncluded, finished, cached, waitStart,
                   spurious, childrens, idx, attempted, signaled, result>>
    /\ UNCHANGED envVars
    /\ UNCHANGED wVars
    /\ UNCHANGED pVars

\* the blocked wait ends (notification, timeout, or a spurious wake-up) and
\* the supervisor re-acquires the lock
SupWake ==
    /\ sup_pc = "waiting"
    /\ lock = "free"
    /\ \/ /\ notified \/ now - waitStart >= D
          /\ UNCHANGED spurious
       \/ /\ ~(notified \/ now - waitStart >= D)
          /\ spurious < MaxSpurious
          /\ spurious' = spurious + 1
    /\ lock' = "sup"
    /\ sup_pc' = "check"
    /\ UNCHANGED <<now, D, rootIncluded, finished, cached, notified, hist,
                   waitStart, childrens, idx, attempted, signaled, result>>
    /\ UNCHANGED envVars
    /\ UNCHANGED wVars
    /\ UNCHANGED pVars

\* variant: the flag is written with the outcome of the wait
SupSetDoneTimedOut ==
    /\ sup_pc = "post_wait"
    /\ finished' = (now - waitStart >= D)
    /\ sup_pc' = "probe"
    /\ UNCHANGED <<now, D, rootIncluded, lock, cached, notified, hist,
                   waitStart, spurious, childrens, idx, attempted, signaled,
                   result>>
    /\ UNCHANGED envVars
    /\ UNCHANGED wVars
    /\ UNCHANGED pVars

\* *done = true;
SupSetDone ==
    /\ sup_pc = "post_wait"
    /\ finished' = TRUE
    /\ sup_pc' = "probe"
    /\ UNCHANGED <<now, D, rootIncluded, lock, cached, notified, hist,
                   waitStart, spurious, childrens, idx, attempted, signaled,
                   result>>
    /\ UNCHANGED envVars
    /\ UNCHANGED wVars
    /\ UNCHANGED pVars

\* variant: the kill phase runs whatever the exit status says
CleanupNeededAlways(outcome) == outcome # "err"

\* maybe_cleanup: does `child.try_wait()?.is_none()` lead to the kill phase
CleanupNeeded(outcome) == outcome = "none_"

\* maybe_cleanup: child.try_wait()?
SupProbe ==
    /\ sup_pc = "probe"
    /\ \E outcome \in TryWaitOutcomes :
          /\ LET h == [hist EXCEPT !.probe = outcome,
                                    !.exitedAtProbe = (pstate[Root] = "exited")]
             IN hist' = IF CleanupNeeded(outcome) THEN h ELSE Ret(h)
          /\ cached' = (cached \/ outcome = "some")
          /\ IF CleanupNeeded(outcome)
             THEN /\ sup_pc' = "enum"
                  /\ UNCHANGED <<lock, result>>
             ELSE /\ sup_pc' = "done"
                  /\ lock' = "free"
                  /\ result' = IF outcome = "err" THEN "err_io" ELSE "ok"
    /\ UNCHANGED <<now, D, rootIncluded, finished, notified, waitStart,
                   spurious, childrens, idx, attempted, signaled>>
    /\ UNCHANGED envVars
    /\ UNCHANGED wVars
    /\ UNCHANGED pVars

\* variant: a failed enumeration is taken for an empty tree
SupEnumSwallow ==
    /\ sup_pc = "enum"
    /\ \/ /\ \E order \in Perms(Enumerated) : childrens' = order
          /\ idx' = 1
          /\ sup_pc' = "kill"
          /\ hist' = [hist EXCEPT !.enum = "ok", !.runningAtEnum = Running]
          /\ UNCHANGED <<lock, result>>
       \/ /\ sup_pc' = "done"
          /\ lock' = "free"
          /\ result' = "ok"
          /\ hist' = Ret([hist EXCEPT !.enum = "err"])
          /\ UNCHANGED <<childrens, idx>>
    /\ UNCHANGED <<now, D, rootIncluded, finished, cached, notified,
                   waitStart, spurious, attempted, signaled>>
    /\ UNCHANGED envVars
    /\ UNCHANGED wVars
    /\ UNCHANGED pVars

\* maybe_cleanup: list_descendants(child.id() as usize)?
SupEnum ==
    /\ sup_pc = "enum"
    /\ \/ /\ \E order \in Perms(Enumerated) : childrens' = order
          /\ idx' = 1
          /\ sup_pc' = "kill"
          /\ hist' = [hist EXCEPT !.enum = "ok", !.runningAtEnum = Running]
          /\ UNCHANGED <<lock, result>>
       \/ /\ sup_pc' = "done"
          /\ lock' = "free"
          /\ result' = "err_kill"
          /\ hist' = Ret([hist EXCEPT !.enum = "err"])
          /\ UNCHANGED <<childrens, idx>>
    /\ UNCHANGED <<now, D, rootIncluded, finished, cached, notified,
                   waitStart, spurious, attempted, signaled>>
    /\ UNCHANGED envVars
    /\ UNCHANGED wVars
    /\ UNCHANGED pVars

\* maybe_cleanup: one iteration of `for kid in childrens { kill(&kid)?; }`.
\* kill(&kid) answers Ok or fails; `?` returns a failure at once.
SupKill ==
    /\ sup_pc = "kill"
    /\ idx <= Len(childrens)
    /\ LET kid == childrens[idx] IN
       /\ attempted' = [attempted EXCEPT ![kid] = TRUE]
       /\ \/ /\ signaled' = [signaled EXCEPT ![kid] = TRUE]
             /\ idx' = idx + 1
             /\ UNCHANGED <<sup_pc, lock, result, hist>>
          \/ /\ hist' = Ret([hist EXCEPT !.killErr =
                        IF pstate[kid] = "running" THEN "live" ELSE "dead"])
             /\ sup_pc' = "done"
             /\ lock' = "free"
             /\ result' = "err_kill"
             /\ UNCHANGED <<idx, signaled>>
    /\ UNCHANGED <<now, D, rootIncluded, finished, cached, notified,
                   waitStart, spurious, childrens>>
    /\ UNCHANGED envVars
    /\ UNCHANGED wVars
    /\ UNCHANGED pVars

\* variant: the loop stops one entry early
SupReturnEarly ==
    /\ sup_pc = "kill"
    /\ idx >= Len(childrens)
    /\ sup_pc' = "done"
    /\ lock' = "free"
    /\ result' = "ok"
    /\ hist' = Ret(hist)
    /\ UNCHANGED <<now, D, rootIncluded, finished, cached, notified,
                   waitStart, spurious, childrens, idx, attempted, signaled>>
    /\ UNCHANGED envVars
    /\ UNCHANGED wVars
    /\ UNCHANGED pVars

\* the loop is over: Ok(()) of maybe_cleanup and of timeout(); the guard is
\* dropped
SupReturn ==
    /\ sup_pc = "kill"
    /\ idx > Len(childrens)
    /\ sup_pc' = "done"
    /\ lock' = "free"
    /\ result' = "ok"
    /\ hist' = Ret(hist)
    /\ UNCHANGED <<now, D, rootIncluded, finished, cached, notified,
                   waitStart, spurious, childrens, idx, attempted, signaled>>
    /\ UNCHANGED envVars
    /\ UNCHANGED wVars
    /\ UNCHANGED pVars

\* ---- the watcher: loop_until_process_is_finished() ----------------------

\* variant: the watcher enters its block without waiting for the mutex
WLockUnguarded ==
    /\ w_pc = "lock"
    /\ lock' = (IF lock = "free" THEN "watcher" ELSE lock)
    /\ w_pc' = "check"
    /\ UNCHANGED <<now, D, rootIncluded, finished, cached, notified, hist,
                   w_wake>>
    /\ UNCHANGED envVars
    /\ UNCHANGED supVars
    /\ UNCHANGED pVars

\* shared.proc_info.lock()?
WLock ==
    /\ w_pc = "lock"
    /\ lock = "free"
    /\ lock' = "watcher"
    /\ w_pc' = "check"
    /\ UNCHANGED <<now, D, rootIncluded, finished, cached, notified, hist,
                   w_wake>>
    /\ UNCHANGED envVars
    /\ UNCHANGED supVars
    /\ UNCHANGED pVars

\* variant: the loop does not look at the flag
WCheckNoBreak ==
    /\ w_pc = "check"
    /\ w_pc' = "probe"
    /\ UNCHANGED <<now, D, rootIncluded, lock, finished, cached, notified,
                   hist, w_wake>>
    /\ UNCHANGED envVars
    /\ UNCHANGED supVars
    /\ UNCHANGED pVars

\* if *done { break; }
WCheck ==
    /\ w_pc = "check"
    /\ IF finished
       THEN /\ w_pc' = "done"
            /\ lock' = "free"
       ELSE /\ w_pc' = "probe"
            /\ UNCHANGED lock
    /\ UNCHANGED <<now, D, rootIncluded, finished, cached, notified, hist,
                   w_wake>>
    /\ UNCHANGED envVars
    /\ UNCHANGED supVars
    /\ UNCHANGED pVars

\* variant: the sleep is taken inside the block, with the guard alive
WProbeHoldsLock ==
    /\ w_pc = "probe"
    /\ \E outcome \in TryWaitOutcomes :
          /\ cached' = (cached \/ outcome = "some")
          /\ IF outcome = "some"
             THEN /\ finished' = TRUE
                  /\ notified' = (notified \/ sup_pc = "waiting")
                  /\ hist' = [hist EXCEPT !.wNotified = now]
             ELSE /\ hist' = [hist EXCEPT
                                 !.wProbeErr = (hist.wProbeErr \/ outcome = "err")]
                  /\ UNCHANGED <<finished, notified>>
    /\ UNCHANGED lock
    /\ w_pc' = "sleep"
    /\ w_wake' = now + PollInterval
    /\ UNCHANGED <<now, D, rootIncluded>>
    /\ UNCHANGED envVars
    /\ UNCHANGED supVars
    /\ UNCHANGED pVars

\* if let Ok(Some(_status)) = child.try_wait() { *done = true; notify_all }
\* then the block ends (the lock is released) and the thread sleeps
WProbe ==
    /\ w_pc = "probe"
    /\ \E outcome \in TryWaitOutcomes :
          /\ cached' = (cached \/ outcome = "some")
          /\ IF outcome = "some"
             THEN /\ finished' = TRUE
                  /\ notified' = (notified \/ sup_pc = "waiting")
                  /\ hist' = [hist EXCEPT !.wNotified = now]
             ELSE /\ hist' = [hist EXCEPT
                                 !.wProbeErr = (hist.wProbeErr \/ outcome = "err")]
                  /\ UNCHANGED <<finished, notified>>
    /\ lock' = "free"
    /\ w_pc' = "sleep"
    /\ w_wake' = now + PollInterval
    /\ UNCHANGED <<now, D, rootIncluded>>
    /\ UNCHANGED envVars
    /\ UNCHANGED supVars
    /\ UNCHANGED pVars

\* thread::sleep(Duration::from_millis(500)) is over
WSleepEnd ==
    /\ w_pc = "sleep"
    /\ now >= w_wake
    /\ w_pc' = "lock"
    /\ UNCHANGED <<now, D, rootIncluded, lock, finished, cached, notified,
                   hist, w_wake>>
    /\ UNCHANGED envVars
    /\ UNCHANGED supVars
    /\ UNCHANGED pVars

\* ---- time ---------------------------------------------------------------

Tick ==
    /\ ~Urgent
    /\ now < MaxTime
    /\ now' = now + 1
    /\ UNCHANGED <<D, rootIncluded, lock, finished, cached, notified, hist>>
    /\ UNCHANGED envVars
    /\ UNCHANGED supVars
    /\ UNCHANGED wVars
    /\ UNCHANGED pVars

Supervisor ==
    SupLock \/ SupCheck \/ SupWake \/ SupSetDone \/ SupProbe \/ SupEnum
        \/ SupKill \/ SupReturn

Watcher == WLock \/ WCheck \/ WProbe \/ WSleepEnd

Environment == RootExit \/ (\E k \in Kids : KidSpawn(k) \/ KidExit(k))

Next == Supervisor \/ Watcher \/ Environment \/ Tick

Spec == Init /\ [][Next]_vars

\* the scheduler runs both threads and time passes; processes need not exit
FairSpec == Spec /\ WF_vars(Supervisor) /\ WF_vars(Watcher) /\ WF_vars(Tick)

\* ---- the output loggers: spawn_tsptw_output_logger, spawn_psp_output_logger

Kinds == {"tsptw", "psp"}
Labels == {"bench1/inst01", "b/i"}
OtherKind(k) == IF k = "tsptw" THEN "psp" ELSE "tsptw"

\* the lines the streams of the model are made of
ObjLineA(k) == <<ObjHead(k), "1", "2", ".", "5", "0", "0", "0">>
ObjLineB(k) == <<ObjHead(k), "9", ".", "2", "5", "0", "0">>
ObjLineBad(k) == <<ObjHead(k), "1", "2", "x", "5">>
TimeLine == <<TimeHead, "1", ".", "5", "0", " ", "s">>
SolLine(k) == <<SolHead(k), "1", ",", " ", "2", "]">>
SampleLines(k) ==
    { ObjLineA(k), ObjLineB(k), ObjLineBad(k), TimeLine, SolLine(k),
      Sentinel,
      <<"----------", "-">>,                \* eleven hyphens
      <<"==========">>,                     \* the end-of-search mark
      <<ObjHead(OtherKind(k)), "7", ".", "0">>,
      Unreadable }

RECURSIVE SeqsUpTo(_, _)
\* the sequences over S of length at most n
SeqsUpTo(S, n) ==
    IF n = 0 THEN { <<>> }
    ELSE LET shorter == SeqsUpTo(S, n - 1)
         IN shorter \cup { Append(t, x) : t \in { u \in shorter : Len(u) = n - 1 },
                                          x \in S }

\* the end of the stream: the write end of the pipe is closed
Eos == pstate[Root] = "exited"

\* variant: a panic of the logger takes the whole process down
PDieAbort ==
    /\ p_pc' = "dead"
    /\ mainExited' = TRUE
    /\ sup_pc' = "crashed"
    /\ w_pc' = "killed"
    /\ UNCHANGED <<waitStart, spurious, childrens, idx, attempted, signaled,
                   result, w_wake>>
    /\ UNCHANGED coreVars
    /\ UNCHANGED envVars

\* a panic in the closure of thread::spawn: that thread ends, nothing else
PDie ==
    /\ p_pc' = "dead"
    /\ UNCHANGED mainExited
    /\ UNCHANGED coreVars
    /\ UNCHANGED envVars
    /\ UNCHANGED supVars
    /\ UNCHANGED wVars

\* variant: the record is cleared once its row is printed
AfterEmitReset(r) == RecInit

\* what the locals are after a row was printed
AfterEmit(r) == r

\* the row a sentinel prints, given the locals before and after the line
EmittedRow(old, new) == Row(iname, new)

\* one turn of `for line in stdout.lines()`: the body of the loop on the
\* next line of the stream
PRead ==
    /\ p_pc = "run"
    /\ p_pos < Len(stream)
    /\ p_pos' = p_pos + 1
    /\ LET line == stream[p_pos + 1] IN
       IF Fatal(kind, line)
       THEN /\ PDie
            /\ UNCHANGED <<rec, prevRec, rows>>
       ELSE /\ LET new == ApplyLine(kind, rec, line) IN
               IF Emits(line)
               THEN /\ rows' = Append(rows, EmittedRow(rec, new))
                    /\ rec' = AfterEmit(new)
               ELSE /\ rows' = rows
                    /\ rec' = new
            /\ prevRec' = rec
            /\ UNCHANGED <<p_pc, mainExited>>
            /\ UNCHANGED coreVars
            /\ UNCHANGED envVars
            /\ UNCHANGED supVars
            /\ UNCHANGED wVars
    /\ UNCHANGED <<kind, iname, stream>>

\* stdout.lines() is exhausted: the loop and the thread end
PEof ==
    /\ p_pc = "run"
    /\ p_pos = Len(stream)
    /\ Eos
    /\ p_pc' = "eof"
    /\ UNCHANGED <<kind, iname, stream, p_pos, rec, prevRec, rows, mainExited>>
    /\ UNCHANGED coreVars
    /\ UNCHANGED envVars
    /\ UNCHANGED supVars
    /\ UNCHANGED wVars

Parser == PRead \/ PEof

\* a logger on a stream that is complete: the solver has written all its
\* lines and has exited; timeout() is not running
ParserInit ==
    /\ now = 0
    /\ D = 0
    /\ pstate = [p \in Procs |-> IF p = Root THEN "exited" ELSE "unborn"]
    /\ exitTime = 0
    /\ rootIncluded = FALSE
    /\ lock = "free"
    /\ finished = FALSE
    /\ cached = FALSE
    /\ notified = FALSE
    /\ sup_pc = "lock"
    /\ w_pc = "lock"
    /\ w_wake = 0
    /\ waitStart = 0
    /\ spurious = 0
    /\ childrens = <<>>
    /\ idx = 0
    /\ attempted = [p \in Procs |-> FALSE]
    /\ signaled = [p \in Procs |-> FALSE]
    /\ result = "none"
    /\ hist = HistInit
    /\ kind \in Kinds
    /\ iname \in Labels
    /\ stream \in SeqsUpTo(SampleLines(kind), MaxLines)
    /\ p_pos = 0
    /\ p_pc = "run"
    /\ rec = RecInit
    /\ prevRec = RecInit
    /\ rows = <<>>
    /\ mainExited = FALSE

ParserNext == PRead \/ PEof

ParserSpec == ParserInit /\ [][ParserNext]_vars

\* ---- the launcher: main() -----------------------------------------------

\* the lines the solver writes while main() runs
LaunchLines(k) == { Sentinel, ObjLineBad(k) }

\* the solver writes a line to its stdout
SolverWrite(line) ==
    /\ p_pc # "off"
    /\ ~mainExited
    /\ pstate[Root] = "running"
    /\ Len(stream) < MaxWrites
    /\ stream' = Append(stream, line)
    /\ UNCHANGED <<kind, iname, p_pos, p_pc, rec, prevRec, rows, mainExited>>
    /\ UNCHANGED coreVars
    /\ UNCHANGED envVars
    /\ UNCHANGED supVars
    /\ UNCHANGED wVars

\* timeout() has returned, main() returns (Ok or Err): the process exits and
\* its other threads, never joined, end where they are
MainExit ==
    /\ sup_pc = "done"
    /\ p_pc # "off"
    /\ ~mainExited
    /\ mainExited' = TRUE
    /\ p_pc' = IF p_pc = "run" THEN "killed" ELSE p_pc
    /\ w_pc' = IF w_pc = "done" THEN "done" ELSE "killed"
    /\ UNCHANGED <<kind, iname, stream, p_pos, rec, prevRec, rows, w_wake>>
    /\ UNCHANGED coreVars
    /\ UNCHANGED envVars
    /\ UNCHANGED supVars

\* invoke_*_mzn has spawned the solver and the logger; timeout() is called
LaunchInit ==
    /\ SupInit
    /\ kind \in Kinds
    /\ iname = "bench1/inst01"
    /\ stream = <<>>
    /\ p_pos = 0
    /\ p_pc = "run"
    /\ rec = RecInit
    /\ prevRec = RecInit
    /\ rows = <<>>
    /\ mainExited = FALSE

\* the solver of the launcher spawns no sub-process
LaunchNext ==
    \/ Supervisor
    \/ Watcher
    \/ RootExit
    \/ Tick
    \/ \E line \in LaunchLines(kind) : SolverWrite(line)
    \/ PRead
    \/ PEof
    \/ MainExit

LaunchSpec == LaunchInit /\ [][LaunchNext]_vars

\* the scheduler runs the two threads of timeout() and time passes; nothing
\* is assumed of the logger thread, of the solver or of main()'s return
FairLaunchSpec ==
    LaunchSpec /\ WF_vars(Supervisor) /\ WF_vars(Watcher) /\ WF_vars(Tick)

TypeOK ==
    /\ now \in 0..MaxTime
    /\ D \in 0..MaxD
    /\ pstate \in [Procs -> {"unborn", "running", "exited"}]
    /\ lock \in {"free", "sup", "watcher"}
    /\ finished \in BOOLEAN
    /\ sup_pc \in {"lock", "check", "waiting", "post_wait", "probe", "enum",
                   "kill", "done"}
    /\ w_pc \in {"lock", "check", "probe", "sleep", "done", "killed"}
    /\ p_pc \in {"off", "run", "eof", "dead", "killed"}
    /\ p_pos \in 0..Len(stream)
    /\ mainExited \in BOOLEAN
    /\ result \in {"none", "ok", "err_io", "err_kill"}

\* ---- properties ---------------------------------------------------------

PastWait == sup_pc \in {"post_wait", "probe", "enum", "kill", "done"}
NoneAttempted == \A p \in Procs : ~attempted[p] /\ ~signaled[p]
AllAttempted == \A p \in Range(childrens) : attempted[p]

\* C1 as stated: when the child had exited before the final exit probe, the
\* tree is never enumerated, nothing is signaled, and timeout() returns
\* success.
C1_ExitedReturnsSuccess ==
    (hist.exitedAtProbe /\ sup_pc = "done") =>
        (hist.enum = "none" /\ NoneAttempted /\ result = "ok")

\* C1 amended: when the child had exited before the final exit probe, the
\* tree is never enumerated and nothing is signaled; timeout() returns
\* success unless that probe itself failed, and then it returns the probe's
\* I/O error.
C1_ExitedNeverKilled ==
    hist.exitedAtProbe =>
        /\ hist.enum = "none"
        /\ sup_pc = "done"
        /\ childrens = <<>>
        /\ NoneAttempted
        /\ result = (IF hist.probe = "err" THEN "err_io" ELSE "ok")

\* the child exited in the window between the timeout firing and the probe
C1_Witness ==
    /\ hist.exitedAtProbe
    /\ hist.waitDone = "timeout"
    /\ exitTime >= waitStart + D
    /\ result = "ok"
    /\ Cardinality(Running) > 0

\* C2: when the child runs at least as long as the deadline, timeout()
\* returns no earlier than the deadline and every descendant alive when the
\* tree was enumerated gets its termination signal sent.
C2_DescendantsSignaled ==
    (/\ sup_pc = "done"
     /\ exitTime = -1 \/ exitTime >= waitStart + D
     /\ hist.enum = "ok") =>
        /\ hist.returnedAt >= waitStart + D
        /\ \A k \in Kids \cap hist.runningAtEnum : attempted[k]

\* C3: a failed kill does not stop the loop: every enumerated process gets a
\* termination attempt, and the failure is reported.
C3_KillFailureContinues ==
    (sup_pc = "done" /\ hist.enum = "ok") =>
        /\ AllAttempted
        /\ (hist.killErr # "none" => result = "err_kill")

\* C4: when the deadline fires with the root and its N descendants all
\* running, all N+1 processes are targeted (granting that the enumeration
\* lists the root).
C4_AllTargeted ==
    (/\ sup_pc = "done"
     /\ hist.waitDone = "timeout"
     /\ hist.enum = "ok"
     /\ hist.runningAtEnum = Procs
     /\ rootIncluded) =>
        \A p \in Procs : attempted[p]

\* C5: an enumerated process that has already exited when it is signaled
\* does not fail the operation: the others are still signaled and no error
\* is returned because of it.
C5_DeadEntryTolerated ==
    (sup_pc = "done" /\ hist.enum = "ok" /\ hist.killErr # "live") =>
        (result = "ok" /\ AllAttempted)

\* C6 as stated: when the deadline fired and enumeration and every signal
\* succeeded, timeout() returns success and no process of the tree is
\* running at the moment it returns (granting that the enumeration lists
\* the root).
C6_NothingLeftRunning ==
    (/\ sup_pc = "done"
     /\ hist.waitDone = "timeout"
     /\ hist.enum = "ok"
     /\ hist.killErr = "none"
     /\ rootIncluded) =>
        (result = "ok" /\ Running = {})

\* C6 amended: when the deadline fired and enumeration and every signal
\* succeeded, timeout() returns success and every enumerated process has
\* been sent a termination signal; processes may still be running when it
\* returns.
C6_AllEnumeratedSignaled ==
    (/\ sup_pc = "done"
     /\ hist.waitDone = "timeout"
     /\ hist.enum = "ok"
     /\ hist.killErr = "none") =>
        (result = "ok" /\ \A p \in Range(childrens) : signaled[p])

C6_Witness ==
    /\ sup_pc = "done"
    /\ hist.waitDone = "timeout"
    /\ hist.enum = "ok"
    /\ result = "ok"
    /\ Len(childrens) >= 2
    /\ Running # {}

\* C7: under fair scheduling of the two threads every call of timeout()
\* returns, also when no process ever exits: it does not wait for the
\* processes it signaled.
C7_Returns == <>(sup_pc = "done")

\* timeout() has returned while a process it signaled is still running
C7_Witness ==
    /\ sup_pc = "done"
    /\ \E p \in Procs : signaled[p] /\ pstate[p] = "running"

\* C8: the supervisor is past the wait only if finished was true when the
\* wait ended or the whole timeout has elapsed; a wake-up with neither
\* leaves it waiting.
C8_NoEarlyWake ==
    /\ PastWait =>
          \/ hist.waitDone = "finished"
          \/ hist.waitDone = "timeout" /\ now - waitStart >= D
    /\ sup_pc = "post_wait" => (finished \/ now - waitStart >= D)

\* after a spurious wake-up the wait went on until the timeout
C8_Witness ==
    /\ spurious > 0
    /\ sup_pc = "post_wait"
    /\ hist.waitDone = "timeout"
    /\ D > 0

\* C9: when the child exits before the deadline, then more than one polling
\* interval later (and still before the deadline) finished is set and
\* timeout() has returned.
C9_DetectionLatency ==
    (/\ exitTime >= 0
     /\ sup_pc # "lock"
     /\ now > exitTime + PollInterval
     /\ now < waitStart + D) =>
        (finished /\ sup_pc = "done")

\* C10: finished starts false and no step resets it to false.
C10_FinishedMonotone ==
    (finished = FALSE) /\ [][finished => finished']_vars

\* both threads have set the flag
C10_Witness ==
    /\ finished
    /\ hist.wNotified >= 0
    /\ sup_pc = "done"

\* C11: timeout() returns an error exactly when the final probe, the
\* enumeration or a kill failed (the lock and the wait cannot fail here: no
\* thread panics while it holds the lock); a failed enumeration sends no
\* signal; every error return comes with finished already true.
C11_ErrorExactly ==
    /\ sup_pc = "done" =>
          /\ result # "none"
          /\ result = "err_io" <=> hist.probe = "err"
          /\ result = "err_kill" <=>
                (hist.enum = "err" \/ hist.killErr # "none")
    /\ sup_pc # "done" => result = "none"
    /\ hist.enum = "err" => NoneAttempted
    /\ result \in {"err_io", "err_kill"} => finished

\* the enumeration failed with sub-processes running
C11_Witness ==
    /\ result = "err_kill"
    /\ hist.enum = "err"
    /\ Running \cap Kids # {}

\* ---- properties of the loggers ------------------------------------------

\* positions of the sentinel lines among the lines taken so far
SentinelsRead == { i \in 1..p_pos : stream[i] = Sentinel }

\* position of the j-th sentinel line
SentPos(j) ==
    CHOOSE i \in SentinelsRead :
        Cardinality({ m \in SentinelsRead : m <= i }) = j

\* the last line before position i that matches a pattern, 0 if none
LastBefore(i, Matches(_)) ==
    LET M == { m \in 1..(i - 1) : Matches(stream[m]) }
    IN IF M = {} THEN 0 ELSE CHOOSE m \in M : \A n \in M : n <= m

IsObj(line) == ObjMatch(kind, line)
IsSol(line) == SolMatch(kind, line)
IsTime(line) == TimeMatch(line)
IsMetric(line) == IsObj(line) \/ IsSol(line) \/ IsTime(line)

\* C12: the logger prints one row per sentinel line it has taken and none
\* for any other line; every row carries the label, and a field no earlier
\* line has set carries its placeholder.
C12_OneRowPerSentinel ==
    p_pc # "off" =>
        /\ Len(rows) = Cardinality(SentinelsRead)
        /\ \A j \in 1..Len(rows) :
              /\ rows[j].label = iname
              /\ LastBefore(SentPos(j), IsObj) = 0 =>
                    rows[j].objective = F32_MAX
              /\ LastBefore(SentPos(j), IsTime) = 0 => rows[j].elapsed = 0
              /\ LastBefore(SentPos(j), IsSol) = 0 =>
                    rows[j].solution = <<"-- no solution --">>

\* two rows from three lines, the first from a stream start
C12_Witness ==
    /\ p_pc = "eof"
    /\ Len(stream) = 3
    /\ stream[1] = Sentinel
    /\ stream[2] # Sentinel
    /\ Len(rows) = 2
    /\ rows[1].objective = F32_MAX
    /\ rows[2].elapsed = 150

\* C13: a row shows, for each field, the value of the last matching line
\* before its sentinel, improving or not: 12.5000 then 9.2500 shows 9.2500,
\* 9.2500 then 12.5000 shows 12.5000.
C13_LastWriteWins ==
    p_pc # "off" =>
        /\ \A j \in 1..Len(rows) :
              LET i == SentPos(j)
                  o == LastBefore(i, IsObj)
                  t == LastBefore(i, IsTime)
                  z == LastBefore(i, IsSol)
              IN /\ o > 0 => rows[j].objective =
                        Fmt4(ParseF32(NumCapture(Tail(stream[o]), <<>>)))
                 /\ t > 0 => rows[j].elapsed =
                        Fmt2(ParseF32(NumCapture(Tail(stream[t]), TimeTail)))
                 /\ z > 0 => rows[j].solution =
                        StripCommas(SolCapture(Tail(stream[z])))
        /\ (p_pos = 3 /\ stream = <<ObjLineA(kind), ObjLineB(kind), Sentinel>>)
              => rows[1].objective = 92500
        /\ (p_pos = 3 /\ stream = <<ObjLineB(kind), ObjLineA(kind), Sentinel>>)
              => rows[1].objective = 125000

\* the later objective is the worse one, and it is the one shown
C13_Witness ==
    /\ p_pos = 3
    /\ stream = <<ObjLineB(kind), ObjLineA(kind), Sentinel>>
    /\ Len(rows) = 1
    /\ rows[1].objective = 125000

\* C14: the same metric line taken twice in a row leaves the record as it
\* was after the first time.
C14_Idempotent ==
    (/\ p_pc \in {"run", "eof"}
     /\ p_pos >= 2
     /\ stream[p_pos] = stream[p_pos - 1]
     /\ IsMetric(stream[p_pos])) => rec = prevRec

\* an elapsed-time line twice, after another metric line
C14_Witness ==
    /\ p_pos = 3
    /\ p_pc = "run"
    /\ stream[1] = ObjLineA(kind)
    /\ stream[2] = TimeLine
    /\ stream[3] = TimeLine
    /\ rec.elapsed = 15000

\* C15: a sentinel line leaves the record as it was: two sentinels in a row
\* print the same row, and a later sentinel still shows what was set before
\* an earlier one.
C15_SentinelKeepsRecord ==
    /\ (p_pc \in {"run", "eof"} /\ p_pos >= 1 /\ stream[p_pos] = Sentinel)
          => rec = prevRec
    /\ (p_pos >= 2 /\ stream[p_pos] = Sentinel /\ stream[p_pos - 1] = Sentinel)
          => rows[Len(rows)] = rows[Len(rows) - 1]

\* an objective, then two sentinels: both rows show it
C15_Witness ==
    /\ p_pos = 3
    /\ stream = <<ObjLineA(kind), Sentinel, Sentinel>>
    /\ Len(rows) = 2
    /\ rows[2].objective = 125000
    /\ rec.objective = 125000

\* C16: when the logger dies on a line, only the logger stops: it prints no
\* further row, and timeout() still returns, with the result its own steps
\* give.
C16_ParserDeathIsLocal ==
    /\ [][p_pc = "dead" => (p_pc' = "dead" /\ rows' = rows)]_vars
    /\ [][(p_pc # "dead" /\ p_pc' = "dead") =>
            (sup_pc' = sup_pc /\ finished' = finished /\ cached' = cached
             /\ lock' = lock /\ mainExited' = mainExited)]_vars
    /\ (p_pc = "dead" ~> sup_pc = "done")
    /\ [](sup_pc = "done" =>
            (result = "ok" <=>
                (hist.probe # "err" /\ hist.enum # "err"
                 /\ hist.killErr = "none")))

\* the logger printed a row, died on the next line, and timeout() returned
C16_Witness ==
    /\ p_pc = "dead"
    /\ Len(rows) = 1
    /\ p_pos = 2
    /\ sup_pc = "done"
    /\ result = "ok"
    /\ ~mainExited

\* C17: in the launcher the logger ends only at the end of the stream or on
\* an error: once the program has exited, every sentinel line the solver
\* wrote before that has its row (unless the logger died on a line).
C17_AllSentinelsPrinted ==
    (mainExited /\ p_pc # "dead") =>
        Len(rows) = Cardinality({ i \in 1..Len(stream) : stream[i] = Sentinel })

\* C18: with finished true the watcher makes no probe and no notification;
\* it ends at its next lock acquisition, and after timeout() has returned it
\* always ends.
C18_WatcherBounded ==
    /\ [](w_pc = "probe" => ~finished)
    /\ []((w_pc = "check" /\ finished) => lock = "watcher")
    /\ [][(w_pc = "check" /\ finished) => w_pc' \in {"check", "done"}]_vars
    /\ [][finished => hist'.wNotified = hist.wNotified]_vars
    /\ <>(sup_pc = "done" /\ w_pc = "done")

\* the watcher ended on the flag the supervisor set
C18_Witness ==
    /\ w_pc = "done"
    /\ sup_pc = "done"
    /\ hist.wNotified = -1
    /\ hist.waitDone = "timeout"

\* C19: the supervisor never blocks in the wait with finished true; once
\* the watcher has set the flag, timeout() returns at that very time, not at
\* the timeout.
C19_NoMissedWakeup ==
    /\ (sup_pc = "waiting" /\ finished) => notified
    /\ (hist.wNotified >= 0 /\ now > hist.wNotified) => sup_pc = "done"
    /\ (hist.wNotified >= 0 /\ sup_pc = "done") =>
          hist.returnedAt = hist.wNotified

\* the watcher set the flag before the supervisor took the lock, and the
\* supervisor left the wait before the timeout
C19_Witness ==
    /\ hist.wNotified >= 0
    /\ hist.waitDone = "finished"
    /\ spurious = 0
    /\ sup_pc = "done"
    /\ hist.returnedAt < waitStart + D

\* C20: a failed exit probe is surfaced to the caller of timeout() and the
\* probe is not made again, in the watcher as in the supervisor.
C20_ProbeFailureSurfaced ==
    /\ hist.wProbeErr => w_pc # "probe"
    /\ (sup_pc = "done" /\ (hist.wProbeErr \/ hist.probe = "err")) =>
          result = "err_io"

\* the positions at which each thread reads or writes the pair (child, done)
InSupSection == sup_pc \in {"check", "post_wait", "probe", "enum", "kill"}
InWatcherSection == w_pc \in {"check", "probe"}
AfterWait == sup_pc \in {"post_wait", "probe", "enum", "kill"}

\* C21: a thread is at a statement that touches the flag or the child handle
\* exactly when it owns the mutex, so never both; every change of the flag or
\* of the handle's cached status is a step of the owner; from the return of
\* the wait to the return of timeout() the supervisor keeps the mutex, the
\* watcher makes no probe, and the child is not reaped between the
\* supervisor's probe and its signals.
C21_LockDiscipline ==
    /\ [](InSupSection <=> lock = "sup")
    /\ [](InWatcherSection <=> lock = "watcher")
    /\ [][(finished' # finished \/ cached' # cached) =>
            \/ lock = "sup" /\ sup_pc' # sup_pc /\ w_pc' = w_pc
            \/ lock = "watcher" /\ w_pc' # w_pc /\ sup_pc' = sup_pc]_vars
    /\ [][AfterWait =>
            /\ lock' = "sup" \/ sup_pc' = "done"
            /\ ~InWatcherSection'
            /\ hist'.wNotified = hist.wNotified
            /\ cached' # cached => sup_pc = "probe"]_vars
    /\ [](sup_pc \in {"enum", "kill"} => ~cached)

\* the watcher stands at its lock() while the supervisor, past its probe, has
\* sent a signal and still owns the mutex
C21_Witness ==
    /\ sup_pc = "kill"
    /\ idx > 1
    /\ lock = "sup"
    /\ w_pc = "lock"
    /\ hist.waitDone = "timeout"

\* the supervisor stands at lock(), or its wait has been notified or has
\* timed out and it has to take the mutex again
SupWantsLock ==
    \/ sup_pc = "lock"
    \/ sup_pc = "waiting" /\ (notified \/ now - waitStart >= D)

\* the order of the watcher's statements
WatcherOrder ==
    { <<"lock", "check">>, <<"check", "probe">>, <<"check", "done">>,
      <<"probe", "sleep">>, <<"sleep", "lock">> }

\* C22: the watcher owns no mutex while it sleeps or after it has ended; its
\* probe step ends the block, frees the mutex and starts a sleep of one poll
\* interval; the watcher's statements follow one another in loop order, and
\* once it sleeps with the supervisor wanting the mutex it takes no step and
\* no time passes before the supervisor has it (so at most four watcher
\* steps come first: end of sleep, lock, flag test, probe); the supervisor
\* always gets the mutex.
C22_WatcherYieldsLock ==
    /\ [](w_pc \in {"sleep", "done"} => lock # "watcher")
    /\ [][(w_pc = "probe" /\ w_pc' # "probe") =>
            (w_pc' = "sleep" /\ lock' = "free"
                /\ w_wake' = now + PollInterval)]_vars
    /\ [][w_pc' # w_pc => <<w_pc, w_pc'>> \in WatcherOrder]_vars
    /\ [][(SupWantsLock /\ w_pc = "sleep" /\ now < w_wake) =>
            (w_pc' = "sleep" /\ now' = now)]_vars
    /\ (SupWantsLock ~> lock = "sup")

\* the watcher has seen the exit, notified, left its block and sleeps; the
\* notified supervisor has yet to take the mutex again
C22_Witness ==
    /\ sup_pc = "waiting"
    /\ notified
    /\ w_pc = "sleep"
    /\ now < w_wake
    /\ lock = "free"
    /\ hist.wNotified = now
    /\ now > 0

====
